---------------------------- MODULE Spec2Model ----------------------------
(***************************************************************************)
(* Model of generic_parser_copy.py: the field extractors (regular          *)
(* expression searches over a CAD message) and parse_data, which assembles *)
(* one record per message and keeps the complete ones.                     *)
(*                                                                         *)
(* A message is a sequence of tokens.  The label words of the patterns     *)
(* ("Call Type", "Incident No", "Loc", "City", "Units", "*** Premise",     *)
(* "Remarks", "Prty") are single tokens; every other token is one          *)
(* character.  The regular expressions are the ones of the source with     *)
(* the DOTALL flag in force (the inline (?s) of the patterns is read as a  *)
(* global flag, as the interpreters that accept these patterns do).        *)
(***************************************************************************)
EXTENDS Integers, Sequences, FiniteSets, TLC

VARIABLES data, idx, dict_list, log, clock, pc, run, prev, ret

vars == <<data, idx, dict_list, log, clock, pc, run, prev, ret>>

---------------------------------------------------------------------------
(* Bounds of the model *)

MaxMsgs == 3
MaxLen == 5
MaxClock == 1

---------------------------------------------------------------------------
(* Characters and Python string helpers *)

Spaces == {" ", "\n"}
Uppers == {"A", "E"}
Digits == {"1", "2"}

IsSpace(c) == c \in Spaces
IsUpper(c) == c \in Uppers
IsDigit(c) == c \in Digits

\* A message that is not a str (a NULL row of the cad table, bytes): re.search
\* raises TypeError on it.
NotStr == <<"<not a str>">>

\* The value None, and a returned value v.
None == [ok |-> FALSE, v |-> <<>>]
Some(val) == [ok |-> TRUE, v |-> val]

MinOf(S) == CHOOSE x \in S : \A y \in S : x <= y
MaxOf(S) == CHOOSE x \in S : \A y \in S : x >= y

\* str.strip()
strip(s) ==
    LET keep == {i \in 1..Len(s) : ~IsSpace(s[i])}
    IN  IF keep = {} THEN <<>> ELSE SubSeq(s, MinOf(keep), MaxOf(keep))

\* str.replace("\n", " ")
replace_newlines(s) == [i \in 1..Len(s) |-> IF s[i] = "\n" THEN " " ELSE s[i]]

\* str.split(", "): the pieces between the non-overlapping occurrences of
\* the separator, found left to right.
RECURSIVE split(_)
split(s) ==
    LET seps == {i \in 1..(Len(s) - 1) : s[i] = "," /\ s[i + 1] = " "}
    IN  IF seps = {} THEN <<s>>
        ELSE LET i == MinOf(seps)
             IN  <<SubSeq(s, 1, i - 1)>> \o split(SubSeq(s, i + 2, Len(s)))

\* re.sub(r"\s+\)", ")", s): every maximal run of whitespace that a ")"
\* follows is deleted.
NextNonSpace(s, i) ==
    LET after == {j \in (i + 1)..Len(s) : ~IsSpace(s[j])}
    IN  IF after = {} THEN 0 ELSE MinOf(after)

\* re.sub(r"\s\)", ")", s): only the one whitespace character before a ")"
\* is deleted.
SubSpaceParen_OneCharacter(s) ==
    LET drop == {i \in 1..(Len(s) - 1) : IsSpace(s[i]) /\ s[i + 1] = ")"}
        F[i \in 0..Len(s)] ==
            IF i = 0 THEN <<>>
            ELSE IF i \in drop THEN F[i - 1] ELSE Append(F[i - 1], s[i])
    IN  F[Len(s)]

SubSpaceParen(s) ==
    LET drop == {i \in 1..Len(s) :
                    /\ IsSpace(s[i])
                    /\ NextNonSpace(s, i) # 0
                    /\ s[NextNonSpace(s, i)] = ")"}
        F[i \in 0..Len(s)] ==
            IF i = 0 THEN <<>>
            ELSE IF i \in drop THEN F[i - 1] ELSE Append(F[i - 1], s[i])
    IN  F[Len(s)]

\* The last position at or after lo that holds token t, 0 when there is none:
\* where a greedy ".*" followed by t stops.
LastAt(s, t, lo) ==
    LET at == {j \in lo..Len(s) : s[j] = t}
    IN  IF at = {} THEN 0 ELSE MaxOf(at)

\* The end of the maximal run of tokens of class C that starts at i
\* (i - 1 when s[i] is not in C).
RunEnd(s, C, i) ==
    LET stop == {j \in i..Len(s) : s[j] \notin C}
    IN  IF stop = {} THEN Len(s) ELSE MinOf(stop) - 1

---------------------------------------------------------------------------
(* The searches: re.search returns the leftmost match *)

\* r"Call Type (?P<call_type>[A-Z]+\s+\((?s).*\))"
CallTypeMatchAt(s, i) ==
    /\ i + 4 <= Len(s)
    /\ s[i] = "Call Type" /\ s[i + 1] = " "
    /\ LET u == RunEnd(s, Uppers, i + 2)
           w == RunEnd(s, Spaces, u + 1)
       IN  /\ u >= i + 2
           /\ w >= u + 1
           /\ w + 1 <= Len(s)
           /\ s[w + 1] = "("
           /\ LastAt(s, ")", w + 2) # 0

CallTypeGroup(s) ==
    LET starts == {i \in 1..Len(s) : CallTypeMatchAt(s, i)}
    IN  IF starts = {} THEN None
        ELSE LET i == MinOf(starts)
                 w == RunEnd(s, Spaces, RunEnd(s, Uppers, i + 2) + 1)
             IN  Some(SubSeq(s, i + 2, LastAt(s, ")", w + 2)))

\* r"Incident No (?P<number>\d+)"
NumberMatchAt(s, i) ==
    /\ i + 2 <= Len(s)
    /\ s[i] = "Incident No" /\ s[i + 1] = " "
    /\ IsDigit(s[i + 2])

NumberGroup(s) ==
    LET starts == {i \in 1..Len(s) : NumberMatchAt(s, i)}
    IN  IF starts = {} THEN None
        ELSE LET i == MinOf(starts)
             IN  Some(SubSeq(s, i + 2, RunEnd(s, Digits, i + 2)))

\* r"Loc (?P<location>(?s).*(?=City))"
LocationMatchAt(s, i) ==
    /\ i + 2 <= Len(s)
    /\ s[i] = "Loc" /\ s[i + 1] = " "
    /\ LastAt(s, "City", i + 2) # 0

LocationGroup(s) ==
    LET starts == {i \in 1..Len(s) : LocationMatchAt(s, i)}
    IN  IF starts = {} THEN None
        ELSE LET i == MinOf(starts)
             IN  Some(SubSeq(s, i + 2, LastAt(s, "City", i + 2) - 1))

\* r"Units(?P<equipment>(\s(?s).*(?=\*\*\*\sPremise)))"
EquipmentMatchAt(s, i) ==
    /\ i + 2 <= Len(s)
    /\ s[i] = "Units" /\ IsSpace(s[i + 1])
    /\ LastAt(s, "*** Premise", i + 2) # 0

EquipmentGroup(s) ==
    LET starts == {i \in 1..Len(s) : EquipmentMatchAt(s, i)}
    IN  IF starts = {} THEN None
        ELSE LET i == MinOf(starts)
             IN  Some(SubSeq(s, i + 1, LastAt(s, "*** Premise", i + 2) - 1))

\* r"Remarks (?P<remarks>(?s).*(?=Prty))"
RemarksMatchAt(s, i) ==
    /\ i + 2 <= Len(s)
    /\ s[i] = "Remarks" /\ s[i + 1] = " "
    /\ LastAt(s, "Prty", i + 2) # 0

RemarksGroup(s) ==
    LET starts == {i \in 1..Len(s) : RemarksMatchAt(s, i)}
    IN  IF starts = {} THEN None
        ELSE LET i == MinOf(starts)
             IN  Some(SubSeq(s, i + 2, LastAt(s, "Prty", i + 2) - 1))

---------------------------------------------------------------------------
(* Diagnostics: what logging.exception(err) appends to errors.log *)

\* A ParsingError raised for a search that found nothing, or the TypeError
\* of re.search on a message that is not a str.
LogEntry(field, msg, now) ==
    [field |-> field,
     data |-> msg,
     parsing_error |-> IF msg = NotStr THEN "TypeError" ELSE "Insufficient regex",
     timestamp |-> now]

\* An except block that logs nothing.
Logged_Nothing(field, group, msg, now) == <<>>

\* The entries one guarded extractor logs for msg: one when its try block
\* raised, none when it returned a value.
Logged(field, group, msg, now) ==
    IF msg = NotStr \/ ~group.ok THEN <<LogEntry(field, msg, now)>> ELSE <<>>

---------------------------------------------------------------------------
(* The extractors *)

call_type_custom_function(msg) ==
    IF msg = NotStr THEN None
    ELSE LET s == CallTypeGroup(msg)
         IN  IF s.ok THEN Some(SubSpaceParen(strip(s.v))) ELSE None

incident_number_custom_function(msg) ==
    IF msg = NotStr THEN None
    ELSE LET s == NumberGroup(msg)
         IN  IF s.ok THEN Some(strip(s.v)) ELSE None

coordinates_custom_function(query) == <<"39.6029,-77.0015">>

\* Returns the pair (address, coordinates), or None.
location_custom_function(msg) ==
    IF msg = NotStr THEN None
    ELSE LET s == LocationGroup(msg)
         IN  IF s.ok
             THEN Some(<<strip(s.v),
                         coordinates_custom_function(
                             "1100 Business Parkway S, Westminster, MD 21157")>>)
             ELSE None

equipment_custom_function(msg) ==
    IF msg = NotStr THEN None
    ELSE LET s == EquipmentGroup(msg)
         IN  IF s.ok
             THEN LET result == split(strip(s.v))
                  IN  Some(IF result = << <<>> >> THEN <<>> ELSE result)
             ELSE None

time_custom_function(msg, now) == now

\* No try block: a TypeError of re.search leaves the function.
remarks_raises(msg) == msg = NotStr

remarks_custom_function(msg) ==
    LET s == RemarksGroup(msg)
    IN  IF s.ok THEN Some(replace_newlines(strip(s.v))) ELSE None

---------------------------------------------------------------------------
(* parse_data: one record per message, the complete ones kept *)

\* Python truthiness of a str-or-None value: None and "" are false.
Truthy(x) == x.ok /\ x.v # <<>>

\* formatted_dict at the end of one iteration of the loop.  The keys
\* location and coordinates are set only when location_custom_function
\* returned a pair; remarks None becomes the string "None".
formatted_dict(msg, now) ==
    LET location_tuple == location_custom_function(msg)
        remarks == remarks_custom_function(msg)
        base == [number |-> incident_number_custom_function(msg),
                 call_type |-> call_type_custom_function(msg),
                 equipment |-> equipment_custom_function(msg),
                 remarks |-> IF remarks.ok THEN remarks ELSE Some(<<"None">>),
                 time |-> time_custom_function(msg, now)]
    IN  IF location_tuple.ok
        THEN base @@ [location |-> Some(location_tuple.v[1]),
                      coordinates |-> Some(location_tuple.v[2])]
        ELSE base

\* The test with "equipment is not None" left out.
Complete_NoEquipmentTest(number, location, call_type, equipment) ==
    /\ Truthy(number)
    /\ Truthy(location)
    /\ Truthy(call_type)

\* if number and location and call_type and equipment is not None
Complete(number, location, call_type, equipment) ==
    /\ Truthy(number)
    /\ Truthy(location)
    /\ Truthy(call_type)
    /\ equipment.ok

\* The local variable location of parse_data.
LocationOf(msg) ==
    LET location_tuple == location_custom_function(msg)
    IN  IF location_tuple.ok THEN Some(location_tuple.v[1]) ELSE None

\* The test with remarks required as well.
Keeps_RemarksRequired(msg) ==
    /\ Complete(incident_number_custom_function(msg), LocationOf(msg),
                call_type_custom_function(msg), equipment_custom_function(msg))
    /\ remarks_custom_function(msg).ok

Keeps(msg) ==
    Complete(incident_number_custom_function(msg), LocationOf(msg),
             call_type_custom_function(msg), equipment_custom_function(msg))

\* dict_list.insert(0, formatted_dict)
AppendRecord_AtFront(list, rec) == <<rec>> \o list

\* dict_list.append(formatted_dict)
AppendRecord(list, rec) == Append(list, rec)

\* What the four guarded extractors log for one message, in call order.
LoggedFor(msg, now) ==
    Logged("number", NumberGroup(msg), msg, now)
        \o Logged("call_type", CallTypeGroup(msg), msg, now)
        \o Logged("location", LocationGroup(msg), msg, now)
        \o Logged("equipment", EquipmentGroup(msg), msg, now)

---------------------------------------------------------------------------
(* The messages of the model *)

Strs(A, n) == UNION {[1..k -> A] : k \in 0..n}

SegCallType == {<<>>, <<"Call Type", " ", "A", "E", " ", "(", "x", " ", ")", "\n">>}
SegNumber == {<<>>, <<"Incident No", " ", "1", "2", "\n">>}
SegLocation == {<<>>,
                <<"Loc", " ", "1", " ", "x", "\n", "City", " ", "x", "\n">>,
                <<"Loc", " ", "City", " ", "x", "\n">>}
SegEquipment == {<<>>,
                 <<"Units", " ", "E", "1", ",", " ", "A", "2", " ", "*** Premise", "\n">>,
                 <<"Units", " ", "*** Premise", "\n">>,
                 <<"Units", "*** Premise", "\n">>,
                 <<"Units", " ", "*** Premise", " ", "x", " ", "*** Premise", "\n">>}
SegRemarks == {<<>>, <<"Remarks", " ", "x", "\n", "x", " ", "Prty", " ", "1">>}

Message(c, n, l, e, r) == c \o n \o l \o e \o r

\* Every combination of the labeled segments, and a message that is not a str.
AllMessages ==
    {Message(c, n, l, e, r) : c \in SegCallType, n \in SegNumber,
                              l \in SegLocation, e \in SegEquipment,
                              r \in SegRemarks}
      \cup {NotStr}

Full == Message(<<"Call Type", " ", "A", "E", " ", "(", "x", " ", ")", "\n">>,
                <<"Incident No", " ", "1", "2", "\n">>,
                <<"Loc", " ", "1", " ", "x", "\n", "City", " ", "x", "\n">>,
                <<"Units", " ", "E", "1", ",", " ", "A", "2", " ", "*** Premise", "\n">>,
                <<"Remarks", " ", "x", "\n", "x", " ", "Prty", " ", "1">>)

\* The messages batches are made of: two complete ones that give different
\* records, one that misses a required field, and one that is not a str.
BatchMessages ==
    {Full,
     Message(<<"Call Type", " ", "A", "E", " ", "(", "x", " ", ")", "\n">>,
             <<"Incident No", " ", "1", "2", "\n">>,
             <<"Loc", " ", "1", " ", "x", "\n", "City", " ", "x", "\n">>,
             <<"Units", " ", "*** Premise", "\n">>, <<>>),
     Message(<<"Call Type", " ", "A", "E", " ", "(", "x", " ", ")", "\n">>,
             <<>>,
             <<"Loc", " ", "1", " ", "x", "\n", "City", " ", "x", "\n">>,
             <<"Units", " ", "E", "1", ",", " ", "A", "2", " ", "*** Premise", "\n">>,
             <<"Remarks", " ", "x", "\n", "x", " ", "Prty", " ", "1">>),
     NotStr}

Batches == {<<m>> : m \in AllMessages} \cup Strs(BatchMessages, MaxMsgs)

---------------------------------------------------------------------------
(* parse_data as a state machine *)

NoCall == [fn |-> "none", returned |-> FALSE, val |-> None]

Init ==
    /\ data \in Batches
    /\ idx = 0
    /\ dict_list = <<>>
    /\ log = <<>>
    /\ clock = 0
    /\ pc = "loop"
    /\ run = 1
    /\ prev = <<>>
    /\ ret = NoCall

\* One iteration of "for msg in data".  The wall clock moves on; the four
\* guarded extractors log their failures; remarks_custom_function either
\* raises, and the exception leaves parse_data, or the record is assembled
\* and kept when complete.
ParseMsg ==
    /\ pc = "loop"
    /\ idx < Len(data)
    /\ \E now \in clock..MaxClock :
         LET msg == data[idx + 1]
         IN  /\ clock' = now
             /\ log' = log \o LoggedFor(msg, now)
             /\ IF remarks_raises(msg)
                THEN /\ pc' = "raised"
                     /\ UNCHANGED <<idx, dict_list>>
                ELSE /\ pc' = "loop"
                     /\ idx' = idx + 1
                     /\ dict_list' = IF Keeps(msg)
                                     THEN AppendRecord(dict_list, formatted_dict(msg, now))
                                     ELSE dict_list
    /\ UNCHANGED <<data, run, prev, ret>>

\* return dict_list
Return ==
    /\ pc = "loop"
    /\ idx = Len(data)
    /\ pc' = "done"
    /\ UNCHANGED <<data, idx, dict_list, log, clock, run, prev, ret>>

\* A second call that goes on with the list of the first (a list that
\* outlives the call, such as a default argument or a module-level list).
Rerun_SharedList ==
    /\ pc = "done"
    /\ run = 1
    /\ run' = 2
    /\ prev' = dict_list
    /\ dict_list' = dict_list
    /\ idx' = 0
    /\ pc' = "loop"
    /\ UNCHANGED <<data, log, clock, ret>>

\* parse_data is called again on the same list; errors.log and the clock
\* go on, the first result is kept for comparison.
Rerun ==
    /\ pc = "done"
    /\ run = 1
    /\ run' = 2
    /\ prev' = dict_list
    /\ dict_list' = <<>>
    /\ idx' = 0
    /\ pc' = "loop"
    /\ UNCHANGED <<data, log, clock, ret>>

Next == ParseMsg \/ Return \/ Rerun

Spec == Init /\ [][Next]_vars

---------------------------------------------------------------------------
(* One extractor called on one message: every message of at most MaxLen    *)
(* tokens, over the tokens its pattern reads, after the start of its       *)
(* label, and the message that is not a str.                               *)

Extractors == {"call_type", "number", "location", "equipment", "remarks"}

Prefix(fn) ==
    CASE fn = "call_type" -> <<"Call Type", " ", "A">>
      [] fn = "number"    -> <<"Incident No">>
      [] fn = "location"  -> <<"Loc", " ">>
      [] fn = "equipment" -> <<"Units">>
      [] fn = "remarks"   -> <<"Remarks", " ">>

Alphabet(fn) ==
    CASE fn = "call_type" -> {"Call Type", " ", "\n", "A", "(", ")", "x"}
      [] fn = "number"    -> {"Incident No", " ", "1", "x"}
      [] fn = "location"  -> {"Loc", " ", "\n", "City", "x"}
      [] fn = "equipment" -> {"Units", " ", "\n", "E", ",", "*** Premise"}
      [] fn = "remarks"   -> {"Remarks", " ", "\n", "Prty", "x"}

Inputs(fn) == {Prefix(fn) \o w : w \in Strs(Alphabet(fn), MaxLen)} \cup {NotStr}

InitExtract ==
    /\ \E fn \in Extractors :
         /\ ret = [fn |-> fn, returned |-> FALSE, val |-> None]
         /\ \E m \in Inputs(fn) : data = <<m>>
    /\ idx = 0
    /\ dict_list = <<>>
    /\ log = <<>>
    /\ clock = 0
    /\ pc = "call"
    /\ run = 1
    /\ prev = <<>>

\* A guarded extractor returns its value, or logs and returns None.
Returns(fn, val, group) ==
    /\ pc = "call"
    /\ ret.fn = fn
    /\ ret' = [fn |-> fn, returned |-> TRUE, val |-> val]
    /\ log' = log \o Logged(fn, group, data[1], clock)
    /\ pc' = "returned"
    /\ UNCHANGED <<data, idx, dict_list, clock, run, prev>>

CallCallType ==
    Returns("call_type", call_type_custom_function(data[1]), CallTypeGroup(data[1]))

CallNumber ==
    Returns("number", incident_number_custom_function(data[1]), NumberGroup(data[1]))

CallLocation ==
    Returns("location", location_custom_function(data[1]), LocationGroup(data[1]))

CallEquipment ==
    Returns("equipment", equipment_custom_function(data[1]), EquipmentGroup(data[1]))

\* remarks_custom_function returns its value or raises.
CallRemarks ==
    /\ pc = "call"
    /\ ret.fn = "remarks"
    /\ IF remarks_raises(data[1])
       THEN pc' = "raised" /\ ret' = ret
       ELSE /\ pc' = "returned"
            /\ ret' = [fn |-> "remarks", returned |-> TRUE,
                       val |-> remarks_custom_function(data[1])]
    /\ UNCHANGED <<data, idx, dict_list, log, clock, run, prev>>

NextExtract ==
    CallCallType \/ CallNumber \/ CallLocation \/ CallEquipment \/ CallRemarks

SpecExtract == InitExtract /\ [][NextExtract]_vars

---------------------------------------------------------------------------
(* What the properties speak of *)

Fields == {"number", "call_type", "location", "coordinates", "equipment",
           "remarks", "time"}

\* A record without its time stamp.
StripTime(rec) == [k \in (DOMAIN rec) \ {"time"} |-> rec[k]]

Running == pc \in {"loop", "done"}

\* The labeled segment of a field is present: its pattern matches somewhere.
HasCallType(m) == \E i \in 1..Len(m) : CallTypeMatchAt(m, i)
HasNumber(m) == \E i \in 1..Len(m) : NumberMatchAt(m, i)
HasLocation(m) == \E i \in 1..Len(m) : LocationMatchAt(m, i)
HasEquipment(m) == \E i \in 1..Len(m) : EquipmentMatchAt(m, i)
HasRemarks(m) == \E i \in 1..Len(m) : RemarksMatchAt(m, i)

HasToken(m, t) == \E i \in 1..Len(m) : m[i] = t

\* The four required fields came out of the extractors of m.
RequiredExtracted(m) ==
    /\ m # NotStr
    /\ LET number == incident_number_custom_function(m)
           call_type == call_type_custom_function(m)
           location_tuple == location_custom_function(m)
       IN  /\ number.ok /\ number.v # <<>>
           /\ call_type.ok /\ call_type.v # <<>>
           /\ location_tuple.ok /\ location_tuple.v[1] # <<>>
           /\ equipment_custom_function(m).ok

\* The positions among the first k whose message gave its four required
\* fields.
KeptUpTo(k) == {j \in 1..k : RequiredExtracted(data[j])}

---------------------------------------------------------------------------
(* C1: every record of the list parse_data builds has number, call_type,   *)
(* location and equipment extracted (none is None) and carries the keys    *)
(* coordinates, remarks and time: no record that misses a required field   *)
(* is ever appended.                                                       *)

RecordComplete(rec) ==
    /\ DOMAIN rec = Fields
    /\ rec.number.ok
    /\ rec.call_type.ok
    /\ rec.location.ok
    /\ rec.equipment.ok

C1_NoPartialRecord ==
    /\ \A i \in 1..Len(dict_list) : RecordComplete(dict_list[i])
    /\ \A i \in 1..Len(prev) : RecordComplete(prev[i])

\* A batch with a kept and a discarded message has been returned.
C1_Witness ==
    /\ pc = "done"
    /\ Len(dict_list) >= 1
    /\ \E k \in 1..Len(data) : ~RequiredExtracted(data[k])

---------------------------------------------------------------------------
(* C2: a message in which the call_type, number, location, equipment and   *)
(* remarks segments are all present gives a record of the returned list    *)
(* with all seven fields, each holding what its extractor returned.        *)

AllSegments(m) ==
    /\ m # NotStr
    /\ HasCallType(m) /\ HasNumber(m) /\ HasLocation(m)
    /\ HasEquipment(m) /\ HasRemarks(m)

IsRecordOf(rec, m) ==
    /\ DOMAIN rec = Fields
    /\ rec.number = incident_number_custom_function(m)
    /\ rec.call_type = call_type_custom_function(m)
    /\ rec.location = Some(location_custom_function(m).v[1])
    /\ rec.coordinates = Some(<<"39.6029,-77.0015">>)
    /\ rec.equipment = equipment_custom_function(m)
    /\ rec.remarks = remarks_custom_function(m)
    /\ rec.time \in 0..MaxClock

C2_AllSegmentsEmitted ==
    pc = "done" =>
        \A k \in 1..Len(data) :
            AllSegments(data[k]) =>
                \E i \in 1..Len(dict_list) : IsRecordOf(dict_list[i], data[k])

---------------------------------------------------------------------------
(* C3: for a message that is complete otherwise, "Units" and "*** Premise" *)
(* with nothing but whitespace between them give equipment = [] and a      *)
(* retained record; without the markers the message is discarded.          *)

OnlySpaceBetweenMarkers(m) ==
    \E i \in 1..Len(m) : \E j \in (i + 1)..Len(m) :
        /\ m[i] = "Units"
        /\ m[j] = "*** Premise"
        /\ \A k \in (i + 1)..(j - 1) : IsSpace(m[k])

OtherwiseComplete(m) ==
    /\ m # NotStr
    /\ Truthy(incident_number_custom_function(m))
    /\ Truthy(call_type_custom_function(m))
    /\ Truthy(LocationOf(m))

C3_EmptyUnitsRetained ==
    (pc = "done" /\ Len(data) = 1 /\ OtherwiseComplete(data[1])) =>
        /\ OnlySpaceBetweenMarkers(data[1]) =>
              /\ Len(dict_list) = 1
              /\ dict_list[1].equipment = Some(<<>>)
        /\ (~HasToken(data[1], "Units") \/ ~HasToken(data[1], "*** Premise")) =>
              dict_list = <<>>

---------------------------------------------------------------------------
(* C4: for a message without a "Remarks ... Prty" span, number, call_type, *)
(* location and equipment alone decide whether a record is emitted, and    *)
(* the record emitted has remarks "None": a missing remarks span never     *)
(* discards a message.                                                     *)

NoRemarksKept(m) == ~HasRemarks(m) /\ RequiredExtracted(m)

C4_MissingRemarks ==
    Running =>
        LET kept == KeptUpTo(idx)
        IN  /\ Len(dict_list) = Cardinality(kept)
            /\ \A k \in kept :
                  ~HasRemarks(data[k]) =>
                      dict_list[Cardinality({j \in kept : j <= k})].remarks
                          = Some(<<"None">>)

C4_Witness ==
    /\ pc = "done"
    /\ \E k \in 1..Len(data) :
          /\ NoRemarksKept(data[k])
          /\ dict_list[Cardinality(KeptUpTo(k))].remarks = Some(<<"None">>)

---------------------------------------------------------------------------
(* C5: no error of an extractor leaves parse_data, whatever the message.   *)

C5_NoErrorPropagates == pc # "raised"

---------------------------------------------------------------------------
(* C6: errors.log receives exactly one entry for each of call_type,        *)
(* number, location and equipment whose pattern is absent from a message   *)
(* parse_data processes, and none for remarks or time; a message that      *)
(* lacks only the "Incident No" marker gives no record and exactly one     *)
(* logged failure, naming number.                                          *)

Required == {"call_type", "number", "location", "equipment"}

PatternAbsent(f, m) ==
    \/ m = NotStr
    \/ CASE f = "call_type" -> ~HasCallType(m)
         [] f = "number"    -> ~HasNumber(m)
         [] f = "location"  -> ~HasLocation(m)
         [] f = "equipment" -> ~HasEquipment(m)

\* How many times the guarded extractors have been called on m so far.
TimesProcessed(m) ==
    (IF run = 2 THEN Cardinality({j \in 1..Len(data) : data[j] = m}) ELSE 0)
      + Cardinality({j \in 1..idx : data[j] = m})
      + (IF pc = "raised" /\ data[idx + 1] = m THEN 1 ELSE 0)

Entries(f, m) == Cardinality({i \in 1..Len(log) : log[i].field = f /\ log[i].data = m})

LacksOnlyNumber(m) ==
    /\ m # NotStr
    /\ ~HasToken(m, "Incident No")
    /\ HasCallType(m) /\ HasLocation(m) /\ HasEquipment(m) /\ HasRemarks(m)

C6_OneEntryPerMiss ==
    /\ \A i \in 1..Len(log) : log[i].field \in Required
    /\ \A k \in 1..Len(data) : \A f \in Required :
          Entries(f, data[k]) =
              IF PatternAbsent(f, data[k]) THEN TimesProcessed(data[k]) ELSE 0
    /\ (pc = "done" /\ run = 1 /\ Len(data) = 1 /\ LacksOnlyNumber(data[1])) =>
          /\ dict_list = <<>>
          /\ Len(log) = 1
          /\ log[1].field = "number"

C6_Witness ==
    /\ pc = "done" /\ run = 1 /\ Len(data) = 1
    /\ LacksOnlyNumber(data[1])
    /\ Len(log) = 1

---------------------------------------------------------------------------
(* C7: the returned list is the input filtered in order: each message      *)
(* gives its record or nothing, whatever the other messages are; records   *)
(* come in the order of their messages and duplicates are kept.            *)

RECURSIVE Expected(_, _)
Expected(d, k) ==
    IF k = 0 THEN <<>>
    ELSE Expected(d, k - 1)
           \o (IF RequiredExtracted(d[k])
               THEN <<StripTime(formatted_dict(d[k], 0))>>
               ELSE <<>>)

C7_OrderedSubsequence ==
    Running =>
        [i \in 1..Len(dict_list) |-> StripTime(dict_list[i])] = Expected(data, idx)

\* Two different records kept in input order around a discarded message.
C7_Witness ==
    /\ pc = "done"
    /\ Len(data) = 3
    /\ Len(dict_list) = 2
    /\ ~RequiredExtracted(data[2])
    /\ StripTime(dict_list[1]) # StripTime(dict_list[2])

---------------------------------------------------------------------------
(* C9: two calls of parse_data on the same list give lists of the same     *)
(* length whose records agree in every field but time.                     *)

C9_SameButTime ==
    (run = 2 /\ pc = "done") =>
        /\ Len(dict_list) = Len(prev)
        /\ \A i \in 1..Len(prev) : StripTime(dict_list[i]) = StripTime(prev[i])

\* Both calls returned a record, with different time stamps.
C9_Witness ==
    /\ run = 2 /\ pc = "done"
    /\ Len(prev) >= 1
    /\ Len(dict_list) >= 1
    /\ dict_list[1].time # prev[1].time

---------------------------------------------------------------------------
(* C10: when the "Call Type" pattern matches, call_type_custom_function    *)
(* returns the matched code and parenthesized text with the whitespace     *)
(* before a closing parenthesis removed, so that no whitespace is          *)
(* directly followed by ")" in it; when the pattern is absent it returns   *)
(* None.                                                                   *)

NoSpaceBeforeParen(s) ==
    \A i \in 1..(Len(s) - 1) : ~(IsSpace(s[i]) /\ s[i + 1] = ")")

NonSpace(s) == SelectSeq(s, LAMBDA c : ~IsSpace(c))

\* The whitespace tokens of s whose run ends at a ")".
SpaceBeforeParen(s) ==
    {i \in 1..Len(s) :
        /\ IsSpace(s[i])
        /\ \E j \in (i + 1)..Len(s) :
              /\ s[j] = ")"
              /\ \A k \in i..(j - 1) : IsSpace(s[k])}

---------------------------------------------------------------------------
(* C8: for a message with a "Loc" marker followed by one or more "City"    *)
(* markers, location_custom_function returns the trimmed text between the  *)
(* "Loc" marker and the nearest "City" marker after it, with the           *)
(* coordinate string; it returns None when there is no such span.          *)

NearestSpan(m) ==
    LET i == MinOf({p \in 1..Len(m) : LocationMatchAt(m, p)})
        j == MinOf({q \in (i + 2)..Len(m) : m[q] = "City"})
    IN  strip(SubSeq(m, i + 2, j - 1))

C8_NearestCity ==
    (ret.fn = "location" /\ ret.returned /\ data[1] # NotStr) =>
        IF HasLocation(data[1])
        THEN ret.val = Some(<<NearestSpan(data[1]), <<"39.6029,-77.0015">> >>)
        ELSE ret.val = None

=============================================================================
